---- MODULE Spec2Model ----
(***************************************************************************)
(* Numba support for clifford MultiVector objects                          *)
(* (clifford/numba/_multivector.py): the compiled type MultiVectorType,    *)
(* its struct model, the constructor typer and lowering, the boundary      *)
(* conversions unbox_MultiVector / box_MultiVector and the attribute       *)
(* wrappers, run over a small host heap and one compiled frame.            *)
(***************************************************************************)
EXTENDS Integers, Sequences, FiniteSets, TLC

\* ------------------------------------------------------------------ bounds
MaxObjs == 14       \* size of the host heap: room for one returned multivector
MaxArgs == 2        \* multivector arguments of a compiled function (add(a, b))

NULL == 0           \* the null PyObject pointer

\* ------------------------------------------------------------ numba types
\* numba.from_dtype: numpy dtype -> numba scalar type (fails for object)
from_dtype(dtype) ==
    CASE dtype = "<f8" -> "float64"
      [] dtype = "<i8" -> "int64"
      [] OTHER -> "NotImplementedError"

\* numpy_support.as_dtype: numba scalar type -> numpy dtype
as_dtype(nbtype) ==
    CASE nbtype = "float64" -> "<f8"
      [] nbtype = "int64" -> "<i8"
      [] OTHER -> "NotImplementedError"

LayoutType == [cls |-> "LayoutType", name |-> <<"LayoutType">>]

\* types.Array(dtype, ndim, layout)
ArrayType(elt, ndim, order) ==
    [cls |-> "Array", name |-> <<"array", elt, ndim, order>>,
     dtype |-> elt, ndim |-> ndim, layout |-> order]

ScalarType(elt) == [cls |-> "Scalar", name |-> <<elt>>]

\* MultiVectorType.__init__: keeps the numpy dtype, names itself after the
\* numba type (from_dtype raises for a dtype numba cannot represent)
MultiVectorType(dtype) ==
    IF from_dtype(dtype) = "NotImplementedError"
    THEN [cls |-> "NotImplementedError", name |-> <<"error">>]
    ELSE [cls |-> "MultiVectorType", dtype |-> dtype,
          name |-> <<"MultiVector", from_dtype(dtype)>>]

IsMVType(t) == t.cls = "MultiVectorType"

\* (key as it would be with the dtype left out of it)
key_wrong(t) == IF IsMVType(t) THEN "MultiVector" ELSE t.name
\* MultiVectorType.key (the default key of a numba type is its name)
key(t) == IF IsMVType(t) THEN t.dtype ELSE t.name

\* numba Type.__eq__: same class and same key
TypeEq(a, b) == a.cls = b.cls /\ key(a) = key(b)

\* (value_type as it would be with [:, :] written for [:])
value_type_2d(t) == ArrayType(from_dtype(t.dtype), 2, "A")
\* MultiVectorType.value_type: from_dtype(dtype)[:], a 1-d array of any layout
value_type(t) == ArrayType(from_dtype(t.dtype), 1, "A")

\* (layout_type as it would be with the body of value_type copied into it)
layout_type_copy(t) == value_type(t)
\* MultiVectorType.layout_type
layout_type(t) == LayoutType

\* MultiVectorModel: the members of the struct, in order
MultiVectorModel(t) == << <<"layout", layout_type(t)>>, <<"value", value_type(t)>> >>

\* the LLVM-level representation of a numba type: an array's depends on its
\* element type and rank, not on its layout letter
DataModel(t) ==
    IF t.cls = "Array" THEN <<"array", t.dtype, t.ndim>> ELSE <<t.cls, t.name>>

\* --------------------------------------------------------------- the state
VARIABLES
    heap,    \* host objects by id: layouts, the class, arrays, multivectors
    nat,     \* the compiled frame: <<[typ, s]>>, s a struct of the model
    origin,  \* history: how each struct of the frame was produced
    reg,     \* the value the last attribute read produced
    log,     \* the C-API calls of the last boundary conversion, in order
    ret,     \* the struct last returned across the boundary, with its history
    typed,   \* the last constructor call typed: <<layout type, value type, result>>
    last,    \* the last operation and its outcome
    pc       \* "run", or "crashed" once the process died

vars == <<heap, nat, origin, reg, log, ret, typed, last, pc>>

\* host objects
Obj(kind, layout, value, dtype, data) ==
    [kind |-> kind, layout |-> layout, value |-> value, dtype |-> dtype, data |-> data]
LayoutObj == Obj("layout", NULL, NULL, "", <<>>)
ClassObject == Obj("class", NULL, NULL, "", <<>>)
ArrayObj(dtype, data) == Obj("array", NULL, NULL, dtype, data)
MVObj(layout, value) == Obj("mv", layout, value, "", <<>>)
Freed == Obj("freed", NULL, NULL, "", <<>>)

\* native values: ref is the Layout object of a native layout, the parent
\* ndarray of a native array (NULL for one allocated in compiled code)
NV(kind, elt, ndim, data, ref) ==
    [kind |-> kind, elt |-> elt, ndim |-> ndim, data |-> data, ref |-> ref]
NoValue == NV("none", "", 0, <<>>, NULL)

\* the numba type of a native value
NativeType(v) ==
    CASE v.kind = "layout" -> LayoutType
      [] v.kind = "array" -> ArrayType(v.elt, v.ndim, "C")
      [] OTHER -> ScalarType(v.elt)

\* a C-API call: its name, its object arguments, the object it returns
Event(op, args, res) == <<op, args, res>>
Op(op, outcome, obj, res) == [op |-> op, outcome |-> outcome, obj |-> obj, res |-> res]

\* how a struct came to be: unboxed from host object obj, or constructed from
\* the native arguments layout and value, value being expression expr over the
\* structs unboxed from the host objects ops
Origin(how, obj, layout, value, expr, ops) ==
    [how |-> how, obj |-> obj, layout |-> layout, value |-> value,
     expr |-> expr, ops |-> ops]

\* the host objects before any call: two Layouts, the MultiVector class, and
\* four multivectors the host library made (ids 5, 7, 9, 11): two of one
\* layout that differ in dtype, two of one dtype that differ in layout, and
\* one whose coefficients are Python objects
ClassObj == 3
HostHeap ==
    << LayoutObj, LayoutObj, ClassObject,
       ArrayObj("<f8", <<1, 0>>), MVObj(1, 4),
       ArrayObj("<f8", <<0, 1>>), MVObj(2, 6),
       ArrayObj("<i8", <<0, 1>>), MVObj(1, 8),
       ArrayObj("O", <<1, 0>>), MVObj(1, 10) >>

Init ==
    /\ heap = HostHeap
    /\ nat = <<>>
    /\ origin = <<>>
    /\ reg = NoValue
    /\ log = <<>>
    /\ ret = <<>>
    /\ typed = <<>>
    /\ last = Op("init", "ok", NULL, NULL)
    /\ pc = "run"

\* clifford.MultiVector.__init__(layout, value), the new multivector at
\* address at and its array at at - 1: it keeps the layout object and its own
\* copy of the coefficients (np.array(value))
MultiVector_init(h, at, layout, dtype, data) ==
    [h EXCEPT ![at - 1] = ArrayObj(dtype, data), ![at] = MVObj(layout, at - 1)]

\* ------------------------------------------------------ typeof and unboxing
\* _typeof_MultiVector: the type of a host multivector, from its array's dtype
typeof_MultiVector(val) == MultiVectorType(heap[heap[val].value].dtype)

\* cgutils.create_struct_proxy(typ): a struct with the members of the model
create_struct_proxy(typ) ==
    [f \in {MultiVectorModel(typ)[k][1] : k \in 1..Len(MultiVectorModel(typ))} |-> NoValue]

\* unbox of a Layout (clifford/numba/_layout.py): the native layout is the
\* pointer to the Layout object itself
unbox_Layout(obj) == NV("layout", "", 0, <<>>, obj)

\* box of a Layout: the Layout object the native layout points to, with a new
\* reference
box_Layout(nl) == nl.ref

\* numba's unbox of an ndarray as array type aty. It reads the object's type
\* before anything else: on a null pointer the behaviour is undefined, and ub
\* names what the build does then ("crash": the process dies; "error": it
\* returns with an error set).
unbox_array(aty, obj, ub) ==
    IF obj = NULL
    THEN [crash |-> ub = "crash", err |-> TRUE, val |-> NoValue]
    ELSE IF heap[obj].kind = "array" /\ from_dtype(heap[obj].dtype) = aty.dtype
    THEN [crash |-> FALSE, err |-> FALSE,
          val |-> NV("array", aty.dtype, aty.ndim, heap[obj].data, obj)]
    ELSE [crash |-> FALSE, err |-> TRUE, val |-> NoValue]

\* c.unbox(ty, obj): the unboxer registered for the type
c_unbox(ty, obj, ub) ==
    IF ty.cls = "LayoutType"
    THEN [crash |-> FALSE, err |-> FALSE, val |-> unbox_Layout(obj)]
    ELSE unbox_array(ty, obj, ub)

\* unbox_MultiVector(typ, obj, c). okV, okL: whether looking up "value" and
\* "layout" succeeds. The result: the struct, is_error, the C-API calls made,
\* and whether the process died on the way.
unbox_MultiVector(typ, obj, okV, okL, ub) ==
    LET value == IF okV THEN heap[obj].value ELSE NULL
        layout == IF okL THEN heap[obj].layout ELSE NULL
        mv0 == create_struct_proxy(typ)
        nl == c_unbox(layout_type(typ), layout, ub)
        na == c_unbox(value_type(typ), value, ub)
        calls == << Event("getattr", <<obj>>, value), Event("getattr", <<obj>>, layout),
                    Event("unbox", <<layout>>, NULL) >>
                 \o (IF nl.crash THEN <<>> ELSE << Event("unbox", <<value>>, NULL) >>)
        err_occurred == ~okV \/ ~okL \/ nl.err \/ na.err
    IN  [crash |-> nl.crash \/ na.crash,
         mv |-> [mv0 EXCEPT !["layout"] = nl.val, !["value"] = na.val],
         is_error |-> err_occurred,
         log |-> IF nl.crash \/ na.crash THEN calls
                 ELSE calls \o << Event("decref", <<value>>, NULL),
                                  Event("decref", <<layout>>, NULL),
                                  Event("err_occurred", <<>>, NULL) >>]

\* a host multivector is passed to a compiled function: typeof picks the
\* specialization and the argument is unboxed into the frame; when either
\* fails the call raises and the frame is gone
Unbox(m, okV, okL, ub) ==
    /\ pc = "run"
    /\ Len(nat) < MaxArgs
    /\ \A x \in 1..Len(origin) : origin[x].how = "unbox"
    /\ m \in 1..Len(heap) /\ heap[m].kind = "mv"
    /\ LET typ == typeof_MultiVector(m)
           r == unbox_MultiVector(typ, m, okV, okL, ub)
       IN  IF ~IsMVType(typ)
           THEN /\ last' = Op("typeof", "error", m, NULL)
                /\ log' = <<>>
                /\ nat' = <<>>
                /\ origin' = <<>>
                /\ pc' = pc
           ELSE /\ log' = r.log
                /\ pc' = IF r.crash THEN "crashed" ELSE "run"
                /\ last' = Op("unbox", IF r.crash THEN "crash"
                                       ELSE IF r.is_error THEN "error" ELSE "ok", m, NULL)
                /\ IF r.crash \/ r.is_error
                   THEN nat' = <<>> /\ origin' = <<>>
                   ELSE /\ nat' = Append(nat, [typ |-> typ, s |-> r.mv])
                        /\ origin' = Append(origin,
                               Origin("unbox", m, r.mv["layout"], r.mv["value"],
                                      "arg", <<m, NULL, NULL>>))
    /\ reg' = NoValue
    /\ ret' = <<>>
    /\ typed' = <<>>
    /\ UNCHANGED heap

\* ------------------------------------------------ compiled code: the frame
None == [cls |-> "None", name |-> <<"none">>]

\* (the typer as it would be with "or" written for "and")
typer_or(layout, value) ==
    IF layout.cls = "LayoutType" \/ value.cls = "Array"
    THEN MultiVectorType(as_dtype(IF value.cls = "Array" THEN value.dtype ELSE "float64"))
    ELSE None
\* type_MultiVector's typer(layout, value)
typer(layout, value) ==
    IF layout.cls = "LayoutType" /\ value.cls = "Array"
    THEN MultiVectorType(as_dtype(value.dtype))
    ELSE None

\* lower_builtin(MultiVector, LayoutType, types.Any): the argument types the
\* registered lowering covers
lower_builtin_covers(layout, value) == layout.cls = "LayoutType"

\* a store into a member of a struct proxy: cgutils refuses a value whose
\* representation is not the member's
StoreOk(typ, member, v) ==
    \E k \in 1..Len(MultiVectorModel(typ)) :
        /\ MultiVectorModel(typ)[k][1] = member
        /\ DataModel(NativeType(v)) = DataModel(MultiVectorModel(typ)[k][2])

\* (impl_MultiVector as it would be with the store of mv.value left out)
impl_MultiVector_novalue(typ, layout, value) ==
    LET mv == create_struct_proxy(typ)
    IN  [ok |-> StoreOk(typ, "layout", layout),
         mv |-> [mv EXCEPT !["layout"] = layout]]
\* impl_MultiVector(context, builder, sig, args)
impl_MultiVector(typ, layout, value) ==
    LET mv == create_struct_proxy(typ)
    IN  [ok |-> StoreOk(typ, "layout", layout) /\ StoreOk(typ, "value", value),
         mv |-> [mv EXCEPT !["layout"] = layout, !["value"] = value]]

\* (the wrappers as they would be with the two member names exchanged)
AttrMember_swapped(attr) == IF attr = "value" THEN "layout" ELSE "value"
\* make_attribute_wrapper(MultiVectorType, attr, member): the struct member an
\* attribute of a compiled multivector reads
AttrMember(attr) == IF attr = "value" THEN "value" ELSE "layout"

getattr_MultiVector(e, attr) == e.s[AttrMember(attr)]

\* array arithmetic of compiled code (-a.value, a.value + b.value)
Promote(e1, e2) == IF e1 = "float64" \/ e2 = "float64" THEN "float64" ELSE "int64"
NegData(d) == [x \in DOMAIN d |-> 0 - d[x]]
AddData(d, e) == [x \in DOMAIN d |-> d[x] + e[x]]
Neg(a) == NV("array", a.elt, a.ndim, NegData(a.data), NULL)
Add(a, b) == NV("array", Promote(a.elt, b.elt), a.ndim, AddData(a.data, b.data), NULL)

Exprs == {"value", "neg", "add", "reshape", "scalar", "layout"}

\* the second argument of a constructor call, an expression over the frame
ValueArg(ve, j, k) ==
    LET a == getattr_MultiVector(nat[j], "value")
        b == getattr_MultiVector(nat[k], "value")
    IN  CASE ve = "value" -> a
          [] ve = "neg" -> Neg(a)
          [] ve = "add" -> Add(a, b)
          [] ve = "reshape" -> NV("array", a.elt, 2, a.data, a.ref)
          [] ve = "scalar" -> NV("scalar", a.elt, 0, <<>>, NULL)
          [] OTHER -> getattr_MultiVector(nat[j], "layout")

\* compiled code calls MultiVector(nat[i].le, ve of nat[j] and nat[k]); a call
\* the typer or the lowering rejects fails the compilation, and nothing runs
Construct(i, le, ve, j, k) ==
    /\ pc = "run"
    /\ \A x \in 1..Len(origin) : origin[x].how = "unbox"
    /\ {i, j, k} \subseteq 1..Len(nat)
    /\ IF ve = "add" THEN j <= k ELSE j = k
    /\ LET layout == getattr_MultiVector(nat[i], le)
           value == ValueArg(ve, j, k)
           typ == typer(NativeType(layout), NativeType(value))
           r == impl_MultiVector(typ, layout, value)
       IN  /\ IF ~IsMVType(typ)
              THEN /\ last' = Op("ctor", "TypingError", NULL, NULL)
                   /\ nat' = <<>>
                   /\ origin' = <<>>
              ELSE IF ~lower_builtin_covers(NativeType(layout), NativeType(value)) \/ ~r.ok
              THEN /\ last' = Op("ctor", "LoweringError", NULL, NULL)
                   /\ nat' = <<>>
                   /\ origin' = <<>>
              ELSE /\ last' = Op("ctor", "ok", NULL, NULL)
                   /\ nat' = Append(nat, [typ |-> typ, s |-> r.mv])
                   /\ origin' = Append(origin,
                          Origin("ctor", NULL, layout, value, ve,
                                 << IF le = "layout" THEN origin[i].obj ELSE NULL,
                                    origin[j].obj, origin[k].obj >>))
           /\ typed' = <<NativeType(layout), NativeType(value), typ>>
    /\ log' = <<>>
    /\ reg' = NoValue
    /\ ret' = <<>>
    /\ UNCHANGED <<heap, pc>>

\* compiled code reads an attribute of a struct of the frame
GetAttr(i, attr) ==
    /\ pc = "run"
    /\ i \in 1..Len(nat)
    /\ reg' = getattr_MultiVector(nat[i], attr)
    /\ last' = Op("getattr", attr, i, NULL)
    /\ log' = <<>>
    /\ ret' = <<>>
    /\ typed' = <<>>
    /\ UNCHANGED <<heap, nat, origin, pc>>

\* ------------------------------------------------------------------ boxing
\* numba's box of a native array: the parent ndarray when it has one, else a
\* new ndarray over the data (at address at); a new reference either way,
\* NULL on failure
box_array(h, at, a, ok) ==
    IF ~ok THEN [obj |-> NULL, heap |-> h]
    ELSE IF a.ref # NULL THEN [obj |-> a.ref, heap |-> h]
    ELSE [obj |-> at, heap |-> [h EXCEPT ![at] = ArrayObj(as_dtype(a.elt), a.data)]]

\* c.box(ty, val): the boxer registered for the type
c_box(h, at, ty, val, ok) ==
    IF ty.cls = "LayoutType"
    THEN [obj |-> box_Layout(val), heap |-> h]
    ELSE box_array(h, at, val, ok)

\* pyapi.call_function_objargs(callable, (a1, a2)) on the MultiVector class:
\* a new multivector (at address at), or NULL when the callable or an argument
\* is null or the call raises
call_function_objargs(h, at, callable, a1, a2, ok) ==
    IF callable = NULL \/ a1 = NULL \/ a2 = NULL \/ ~ok
    THEN [obj |-> NULL, heap |-> h]
    ELSE [obj |-> at, heap |-> MultiVector_init(h, at, a1, h[a2].dtype, h[a2].data)]

\* pyapi.decref(obj): null-safe; an ndarray made for this boxing alone dies
\* with its last reference
decref(h, obj, fresh) ==
    IF obj # NULL /\ fresh THEN [h EXCEPT ![obj] = Freed] ELSE h

\* the heap without the free addresses at its end
RECURSIVE Trim(_)
Trim(h) ==
    IF h # <<>> /\ h[Len(h)].kind = "freed" THEN Trim(SubSeq(h, 1, Len(h) - 1)) ELSE h

\* (box_MultiVector as it would be with the two arguments of the call exchanged)
box_MultiVector_swapped(typ, val, okV, okC, okCall) ==
    LET mv == val
        free == Len(heap)
        h0 == heap \o <<Freed, Freed, Freed>>
        bv == c_box(h0, free + 3, value_type(typ), mv["value"], okV)
        mv_obj == bv.obj
        layout_obj == c_box(bv.heap, free + 3, layout_type(typ), mv["layout"], TRUE).obj
        class_obj == IF okC THEN ClassObj ELSE NULL
        call == call_function_objargs(bv.heap, free + 2, class_obj, mv_obj,
                                      layout_obj, okCall)
        res == call.obj
        fresh == mv["value"].ref = NULL
    IN  [res |-> res,
         heap |-> Trim(decref(call.heap, mv_obj, fresh)),
         log |-> << Event("box", <<>>, mv_obj), Event("box", <<>>, layout_obj),
                    Event("unserialize", <<>>, class_obj),
                    Event("call", <<class_obj, mv_obj, layout_obj>>, res),
                    Event("decref", <<mv_obj>>, NULL), Event("decref", <<class_obj>>, NULL),
                    Event("decref", <<layout_obj>>, NULL), Event("return", <<res>>, NULL) >>]
\* (box_MultiVector as it would be with layout_obj returned for res)
box_MultiVector_wrongret(typ, val, okV, okC, okCall) ==
    LET mv == val
        free == Len(heap)
        h0 == heap \o <<Freed, Freed, Freed>>
        bv == c_box(h0, free + 3, value_type(typ), mv["value"], okV)
        mv_obj == bv.obj
        layout_obj == c_box(bv.heap, free + 3, layout_type(typ), mv["layout"], TRUE).obj
        class_obj == IF okC THEN ClassObj ELSE NULL
        call == call_function_objargs(bv.heap, free + 2, class_obj, layout_obj,
                                      mv_obj, okCall)
        res == call.obj
        fresh == mv["value"].ref = NULL
    IN  [res |-> layout_obj,
         heap |-> Trim(decref(call.heap, mv_obj, fresh)),
         log |-> << Event("box", <<>>, mv_obj), Event("box", <<>>, layout_obj),
                    Event("unserialize", <<>>, class_obj),
                    Event("call", <<class_obj, layout_obj, mv_obj>>, res),
                    Event("decref", <<mv_obj>>, NULL), Event("decref", <<class_obj>>, NULL),
                    Event("decref", <<layout_obj>>, NULL), Event("return", <<layout_obj>>, NULL) >>]
\* box_MultiVector(typ, val, c). okV, okC, okCall: whether boxing the array,
\* unserializing the class and calling it succeed.
box_MultiVector(typ, val, okV, okC, okCall) ==
    LET mv == val
        free == Len(heap)
        h0 == heap \o <<Freed, Freed, Freed>>
        bv == c_box(h0, free + 3, value_type(typ), mv["value"], okV)
        mv_obj == bv.obj
        layout_obj == c_box(bv.heap, free + 3, layout_type(typ), mv["layout"], TRUE).obj
        class_obj == IF okC THEN ClassObj ELSE NULL
        call == call_function_objargs(bv.heap, free + 2, class_obj, layout_obj,
                                      mv_obj, okCall)
        res == call.obj
        fresh == mv["value"].ref = NULL
    IN  [res |-> res,
         heap |-> Trim(decref(call.heap, mv_obj, fresh)),
         log |-> << Event("box", <<>>, mv_obj), Event("box", <<>>, layout_obj),
                    Event("unserialize", <<>>, class_obj),
                    Event("call", <<class_obj, layout_obj, mv_obj>>, res),
                    Event("decref", <<mv_obj>>, NULL), Event("decref", <<class_obj>>, NULL),
                    Event("decref", <<layout_obj>>, NULL), Event("return", <<res>>, NULL) >>]

\* a compiled function returns struct i of its frame to the host; the frame
\* is gone afterwards. The heap has room for the new multivector and its
\* array, and for the temporary ndarray of a value that has no parent.
Box(i, okV, okC, okCall) ==
    /\ pc = "run"
    /\ i \in 1..Len(nat)
    /\ Len(heap) + (IF nat[i].s["value"].ref # NULL THEN 2 ELSE 3) <= MaxObjs
    /\ LET r == box_MultiVector(nat[i].typ, nat[i].s, okV, okC, okCall)
       IN  /\ heap' = r.heap
           /\ log' = r.log
           /\ last' = Op("box", IF r.res = NULL THEN "error" ELSE "ok", NULL, r.res)
           /\ ret' = << [typ |-> nat[i].typ, s |-> nat[i].s, org |-> origin[i]] >>
    /\ nat' = <<>>
    /\ origin' = <<>>
    /\ reg' = NoValue
    /\ typed' = <<>>
    /\ UNCHANGED pc

\* a compiled function returns without handing a multivector back
Return ==
    /\ pc = "run"
    /\ nat # <<>>
    /\ nat' = <<>>
    /\ origin' = <<>>
    /\ last' = Op("return", "ok", NULL, NULL)
    /\ log' = <<>>
    /\ reg' = NoValue
    /\ ret' = <<>>
    /\ typed' = <<>>
    /\ UNCHANGED <<heap, pc>>

Next ==
    \/ \E m \in 1..MaxObjs, okV \in BOOLEAN, okL \in BOOLEAN, ub \in {"crash", "error"} :
          Unbox(m, okV, okL, ub)
    \/ \E i \in 1..MaxArgs, j \in 1..MaxArgs, k \in 1..MaxArgs,
          le \in {"layout", "value"}, ve \in Exprs : Construct(i, le, ve, j, k)
    \/ \E i \in 1..(MaxArgs + 1), attr \in {"layout", "value"} : GetAttr(i, attr)
    \/ \E i \in 1..(MaxArgs + 1), okV \in BOOLEAN, okC \in BOOLEAN, okCall \in BOOLEAN :
          Box(i, okV, okC, okCall)
    \/ Return

Spec == Init /\ [][Next]_vars

\* ------------------------------------------------------------- the claims
MVs == {m \in 1..Len(heap) : heap[m].kind = "mv"}
Coefs(m) == heap[heap[m].value].data
Dtype(m) == heap[heap[m].value].dtype
Boxed == last.op = "box" /\ last.outcome = "ok"

\* C1: a host multivector m unboxed and boxed again, with nothing done to the
\* struct in between, comes back as a host multivector with the very Layout
\* object of m and the coefficients of m.
RoundTrip ==
    (Boxed /\ ret[1].org.how = "unbox") =>
        LET m == ret[1].org.obj
            r == last.res
        IN  /\ heap[r].kind = "mv"
            /\ heap[r].layout = heap[m].layout
            /\ Coefs(r) = Coefs(m)
            /\ Dtype(r) = Dtype(m)

RoundTripReached ==
    /\ Boxed
    /\ ret[1].org.how = "unbox"
    /\ heap[ret[1].org.obj].layout = 2

\* the host library's -a and a + b: the layout of a, the coefficients negated
\* or added
HostNeg(a) == [layout |-> heap[a].layout, data |-> NegData(Coefs(a))]
HostAdd(a, b) == [layout |-> heap[a].layout, data |-> AddData(Coefs(a), Coefs(b))]
HostValue(r) == [layout |-> heap[r].layout, data |-> Coefs(r)]

StructWellTyped ==
    \A x \in 1..Len(nat) :
        LET e == nat[x]
        IN  /\ DOMAIN e.s = {"layout", "value"}
            /\ e.s["value"].kind = "array"
            /\ e.s["value"].ndim = 1
            /\ e.s["value"].elt = from_dtype(e.typ.dtype)
            /\ DataModel(NativeType(e.s["value"])) = DataModel(MultiVectorModel(e.typ)[2][2])

StructWellTypedReached ==
    /\ Len(nat) = 2
    /\ origin[1].how = "unbox"
    /\ origin[2].how = "ctor"
    /\ nat[2].typ.dtype = "<i8"

\* C4: the type of a multivector is decided by its coefficient dtype alone: an
\* unboxed struct has the type MultiVectorType(dtype of the host array), two
\* types are the same type exactly when their dtypes are equal, and the type
\* of a constructed struct is the type typeof gives a host multivector of that
\* element type.
TypeByDtype ==
    /\ \A x \in 1..Len(nat) :
          /\ origin[x].how = "unbox" =>
                 nat[x].typ = MultiVectorType(Dtype(origin[x].obj))
          /\ origin[x].how = "ctor" =>
                 /\ nat[x].typ = MultiVectorType(as_dtype(origin[x].value.elt))
                 /\ \A m \in MVs : from_dtype(Dtype(m)) = origin[x].value.elt =>
                        TypeEq(nat[x].typ, typeof_MultiVector(m))
    /\ \A x, y \in 1..Len(nat) :
          TypeEq(nat[x].typ, nat[y].typ) <=> nat[x].typ.dtype = nat[y].typ.dtype

TypeByDtypeReached ==
    /\ Len(nat) = 3
    /\ origin[3].how = "ctor"
    /\ nat[1].typ.dtype # nat[2].typ.dtype

\* C5: the layout member has the one type LayoutType whatever the dtype and
\* the algebra: host multivectors of equal dtype and different layouts have
\* the same MultiVectorType, and each keeps its own Layout object through
\* unboxing and boxing.
OneLayoutType ==
    /\ \A m \in MVs : IsMVType(typeof_MultiVector(m)) =>
          /\ layout_type(typeof_MultiVector(m)) = LayoutType
          /\ MultiVectorModel(typeof_MultiVector(m))[1] = <<"layout", LayoutType>>
    /\ \A m, n \in MVs : (Dtype(m) = Dtype(n) /\ IsMVType(typeof_MultiVector(m))) =>
          TypeEq(typeof_MultiVector(m), typeof_MultiVector(n))
    /\ \A x \in 1..Len(nat) : origin[x].how = "unbox" =>
          /\ NativeType(nat[x].s["layout"]) = LayoutType
          /\ box_Layout(nat[x].s["layout"]) = heap[origin[x].obj].layout
    /\ (Boxed /\ ret[1].org.how = "unbox") =>
          heap[last.res].layout = heap[ret[1].org.obj].layout

OneLayoutTypeReached ==
    /\ Len(nat) = 2
    /\ origin[1].how = "unbox" /\ origin[2].how = "unbox"
    /\ TypeEq(nat[1].typ, nat[2].typ)
    /\ heap[origin[1].obj].layout # heap[origin[2].obj].layout

\* a step that reads attribute attr of struct x of the frame
AttrReadStep ==
    last'.op = "getattr" =>
        LET x == last'.obj
            attr == last'.outcome
        IN  /\ nat' = nat
            /\ reg' = nat[x].s[attr]
            /\ origin[x].how = "unbox" =>
                   IF attr = "layout"
                   THEN reg'.kind = "layout" /\ reg'.ref = heap[origin[x].obj].layout
                   ELSE /\ reg'.kind = "array"
                        /\ reg'.ref = heap[origin[x].obj].value
                        /\ reg'.data = Coefs(origin[x].obj)
            /\ origin[x].how = "ctor" =>
                   reg' = IF attr = "layout" THEN origin[x].layout ELSE origin[x].value
\* C6: reading an attribute of a compiled multivector yields that field of the
\* struct and changes no struct: of a struct unboxed from m the layout and the
\* coefficients of m, of a struct built by MultiVector(L, v) L and v.
AttrRead == [][AttrReadStep]_vars

AttrReadReached ==
    /\ last.op = "getattr"
    /\ last.outcome = "value"
    /\ origin[last.obj].how = "ctor"
    /\ origin[last.obj].expr = "neg"

\* a step that boxes a struct and returns an object r
BoxStep ==
    (last'.op = "box" /\ last'.outcome = "ok") =>
        LET r == last'.res
        IN  /\ r \notin {x \in 1..Len(heap) : heap[x].kind # "freed"}
            /\ r # ret'[1].org.obj
            /\ heap'[r].kind = "mv"
            /\ heap'[r].layout = ret'[1].s["layout"].ref
            /\ \A x \in 1..Len(heap) : heap'[x] = heap[x]
            /\ log'[4] = Event("call", <<ClassObj, heap'[r].layout, log'[1][3]>>, r)
\* C7: boxing makes a new host multivector by calling the class on the boxed
\* layout and value: the object returned is none of the objects that were
\* there before, the argument included, and its layout is the Layout object of
\* the struct.
BoxIsNew == [][BoxStep]_vars

BoxIsNewReached ==
    /\ Boxed
    /\ ret[1].org.how = "unbox"
    /\ last.res # ret[1].org.obj

\* C8: the typer gives a MultiVectorType exactly for a LayoutType and an Array,
\* and no type for any other pair; every pair it accepts the registered
\* lowering (LayoutType, Any) covers.
TyperDomain ==
    typed # <<>> =>
        /\ IsMVType(typed[3]) <=> (typed[1].cls = "LayoutType" /\ typed[2].cls = "Array")
        /\ ~IsMVType(typed[3]) => typed[3] = None
        /\ IsMVType(typed[3]) => lower_builtin_covers(typed[1], typed[2])
        /\ IsMVType(typed[3]) => typed[3] = MultiVectorType(as_dtype(typed[2].dtype))

TyperDomainReached ==
    /\ typed # <<>>
    /\ typed[1].cls = "LayoutType"
    /\ typed[2].cls # "Array"
    /\ last.outcome = "TypingError"

\* the temporaries of a conversion: the objects its calls returned a new
\* reference to, the result of the constructor call apart
Positions == 1..Len(log)
Acquires(p) == log[p][1] \in {"getattr", "box", "unserialize"} /\ log[p][3] # NULL
Releases(p, o) == log[p][1] = "decref" /\ log[p][2] = <<o>>
Uses(p, o) ==
    /\ log[p][1] \in {"unbox", "call"}
    /\ \E a \in 1..Len(log[p][2]) : log[p][2][a] = o

\* C9: unboxing reports failure as a value, is_error being set exactly when an
\* attribute lookup failed, and no sub-unboxer or decref is applied to the
\* null pointer a failed lookup returned.
UnboxNullChecked ==
    last.op = "unbox" =>
        /\ last.outcome \in {"ok", "error"}
        /\ last.outcome = "error" <=>
               \E p \in Positions : log[p][1] = "getattr" /\ log[p][3] = NULL
        /\ \A p \in Positions : log[p][1] \in {"unbox", "decref"} => log[p][2] # <<NULL>>

\* the calls of the last conversion release each temporary exactly once, after
\* its last use, and return the one reference to the result of the call
Balanced ==
    /\ \A p \in Positions : Acquires(p) =>
          LET o == log[p][3]
          IN  /\ Cardinality({q \in Positions : Releases(q, o)}) =
                     Cardinality({q \in Positions : Acquires(q) /\ log[q][3] = o})
              /\ \A q, u \in Positions : (Releases(q, o) /\ Uses(u, o)) => u < q
    /\ \A p \in Positions : (log[p][1] = "call" /\ log[p][3] # NULL) =>
          /\ \A q \in Positions : ~Releases(q, log[p][3])
          /\ log[Len(log)] = Event("return", <<log[p][3]>>, NULL)
\* C10: on every path through unboxing and boxing each temporary reference is
\* released exactly once, after its last use, and boxing hands back one owned
\* reference to the result, never released.
RefsBalanced == last.op \in {"unbox", "box"} => Balanced

\* the conversions that return are balanced: only the path that dies is not
RefsBalancedOnReturn ==
    (last.op \in {"unbox", "box"} /\ pc = "run") => Balanced

====
